---- MODULE Spec2Model ----
(***************************************************************************)
(* Model of the ledger wallet `open` static method (src/src/ledger/index.js *)
(* lines 1-109) and of the provider generator methods (same file, lines     *)
(* 111-233).                                                                *)
(*                                                                          *)
(* `open` is an async function: it runs synchronously up to its first       *)
(* `await`, is suspended while the device answers, and is resumed once per  *)
(* awaited promise.  Each run-to-completion segment is one action.  The     *)
(* provider generators are synchronous, so each of them is one action.      *)
(***************************************************************************)
EXTENDS Integers, Sequences, FiniteSets, TLC

(* ------------------------------ bounds --------------------------------- *)

\* number of open() calls that may be in flight together
NumCalls == 2

(* --------------------------- program constants ------------------------- *)

\* NETWORK_IDS.HOMESTEAD: "defaults to mainnet (1)"
HOMESTEAD == 1

\* PATH.COIN_MAINNET (core/defaults, not in src): the standard Ether coin type
COIN_MAINNET == 60

\* PATH.COIN_TESTNET: "If we're on a testnet set the coin type id to `1`"
COIN_TESTNET == 1

\* the chain id of a test network (ropsten)
ROPSTEN == HOMESTEAD + 2

(* ----------------------------- JS values ------------------------------- *)

Undefined == <<"undefined">>
Num(n) == <<"number", n>>
Str(s) == <<"string", s>>

Calls == 1..NumCalls

\* addressCount: absent, a count, a negative number, a string
AddressCounts == {Undefined, Num(1), Num(-1), Str("2")}

\* chainId: absent, mainnet, a test network, a string
ChainIds == {Undefined, Num(HOMESTEAD), Num(ROPSTEN), Str("1")}

\* what a caller may hand to open(): nothing, null, an array, a primitive,
\* or an object with the two recognised fields (well-typed or absent
\* addressCount with any chainId, any addressCount with chainId absent)
Arguments ==
    [kind : {"undefined", "null", "array", "primitive"},
     addressCount : {Undefined}, chainId : {Undefined}]
    \cup [kind : {"object"}, addressCount : {Undefined, Num(1)}, chainId : ChainIds]
    \cup [kind : {"object"}, addressCount : AddressCounts, chainId : {Undefined}]

EmptyObject == [kind |-> "object", addressCount |-> Undefined, chainId |-> Undefined]

(* ------------------------------ errors --------------------------------- *)

NoError == [name |-> "none", message |-> ""]

ValidationError == [name |-> "ValidationError", message |-> "bad arguments"]

\* what the device layer (ledgerConnection / getAddress) can fail with
DeviceErrors ==
    {[name |-> "TransportError", message |-> "device not connected"]}

\* what the LedgerWallet constructor can fail with
ConstructorErrors == {[name |-> "TypeError", message |-> "invalid public key"]}

\* what handleLedgerConnectionError throws when it re-surfaces the failure
HandlerError == [name |-> "ConnectionError", message |-> "ledger connection failed"]

\* the two outcomes of handleLedgerConnectionError
HandlerOutcomes == {"undefined", "throw"}

\* messages.userExportGenericError
userExportGenericError == "Could not export the public key from the device"

PublicKeys == {"pkA"}
ChainCodes == {"ccA"}

(* ------------------------------ state ---------------------------------- *)

VARIABLES
    pc,         \* per open() call: where the async function is
    arg,        \* per open() call: the argument it was called with
    frame,      \* per open() call: its local constants
    log,        \* per open() call: the calls it has made, in order
    outcome,    \* per open() call: how its promise settled
    web3,       \* global.web3 as the provider generators see it
    last        \* the record of the latest provider generator call

openVars == <<pc, arg, frame, log, outcome>>
providerVars == <<web3, last>>
vars == <<pc, arg, frame, log, outcome, web3, last>>

NoWallet ==
    [publicKey |-> "", chainCode |-> "", rootDerivationPath |-> <<>>,
     addressCount |-> Undefined, chainId |-> Undefined]

NoFrame ==
    [addressCount |-> Undefined, chainId |-> Undefined, coinType |-> 0,
     rootDerivationPath |-> <<>>]

Pending == [status |-> "pending", wallet |-> NoWallet, error |-> NoError]

(* ------------------------- helpers used by open ------------------------ *)

\* userInputValidator({ firstArgument }): TRUE when it returns, FALSE when it
\* throws.  The argument must be an object (not null, an array or a
\* primitive); a recognised field that is present must have its type.
userInputValidator(firstArgument) ==
    /\ firstArgument.kind = "object"
    /\ \/ firstArgument.addressCount = Undefined
       \/ /\ firstArgument.addressCount[1] = "number"
          /\ firstArgument.addressCount[2] >= 0
    /\ \/ firstArgument.chainId = Undefined
       \/ /\ firstArgument.chainId[1] = "number"
          /\ firstArgument.chainId[2] > 0

\* without the default parameter value
argumentObjectOf_noDefault(a) == a

\* the default parameter value of open: `argumentObject = {}`
argumentObjectOf(a) == IF a.kind = "undefined" THEN EmptyObject ELSE a

\* without the default of the destructuring
resolveChainId_raw(argumentObject) == argumentObject.chainId

\* const { chainId = NETWORK_IDS.HOMESTEAD } = argumentObject
resolveChainId(argumentObject) ==
    IF argumentObject.chainId = Undefined
    THEN Num(HOMESTEAD)
    ELSE argumentObject.chainId

\* chainId === NETWORK_IDS.HOMESTEAD ? PATH.COIN_MAINNET : PATH.COIN_TESTNET
coinTypeOf(chainId) ==
    IF chainId = Num(HOMESTEAD) THEN COIN_MAINNET ELSE COIN_TESTNET

\* derivationPathSerializer({ coinType }): m/44'/<coinType>'/0'
derivationPathSerializer(coinType) ==
    <<"m/44'/", ToString(coinType), "'/0'">>

\* `${messages.userExportGenericError}: ${rootDerivationPath} ${caughtError.message}`
errorMessage(rootDerivationPath, caughtError) ==
    <<userExportGenericError, ": ">> \o rootDerivationPath
        \o <<" ", caughtError.message>>

\* handleLedgerConnectionError(caughtError, message): the settled outcome
handlerResult(h) ==
    IF h = "throw"
    THEN [status |-> "throw", wallet |-> NoWallet, error |-> HandlerError]
    ELSE [status |-> "undefined", wallet |-> NoWallet, error |-> NoError]

(* ------------------------------- open ---------------------------------- *)

Settle(c, lg, res) ==
    /\ pc' = [pc EXCEPT ![c] = IF res.status = "throw" THEN "rejected" ELSE "resolved"]
    /\ log' = [log EXCEPT ![c] = lg]
    /\ outcome' = [outcome EXCEPT ![c] = res]

\* a catch block that reports to the handler and then rethrows what it caught
Catch_rethrow(c, lg, caughtError, h) ==
    LET message == errorMessage(frame[c].rootDerivationPath, caughtError)
        res == handlerResult(h)
    IN  Settle(c,
               Append(lg, <<"handleLedgerConnectionError", caughtError, message, res>>),
               [status |-> "throw", wallet |-> NoWallet, error |-> caughtError])

\* the catch block of open: hand the caught error to the handler and return
\* whatever it returns (or throw whatever it throws)
Catch(c, lg, caughtError, h) ==
    LET message == errorMessage(frame[c].rootDerivationPath, caughtError)
        res == handlerResult(h)
    IN  Settle(c,
               Append(lg, <<"handleLedgerConnectionError", caughtError, message, res>>),
               res)

\* an open that starts the device connection before it validates
Open_connectFirst(c, a) ==
    /\ pc[c] = "idle"
    /\ arg' = [arg EXCEPT ![c] = a]
    /\ LET argumentObject == argumentObjectOf(a)
       IN  IF ~userInputValidator(argumentObject)
           THEN /\ Settle(c, << <<"ledgerConnection">>,
                                <<"userInputValidator", "throw">> >>,
                          [status |-> "throw", wallet |-> NoWallet,
                           error |-> ValidationError])
                /\ UNCHANGED frame
           ELSE LET chainId == resolveChainId(argumentObject)
                    coinType == coinTypeOf(chainId)
                    rootDerivationPath == derivationPathSerializer(coinType)
                IN  /\ frame' = [frame EXCEPT ![c] =
                            [addressCount |-> argumentObject.addressCount,
                             chainId |-> chainId,
                             coinType |-> coinType,
                             rootDerivationPath |-> rootDerivationPath]]
                    /\ log' = [log EXCEPT ![c] =
                            << <<"ledgerConnection">>,
                               <<"userInputValidator", "return">>,
                               <<"coinType", coinType>>,
                               <<"derivationPathSerializer", coinType>> >>]
                    /\ pc' = [pc EXCEPT ![c] = "connecting"]
                    /\ UNCHANGED outcome
    /\ UNCHANGED providerVars

\* open(a) is called: validation, coin type, root path, and the call of
\* ledgerConnection(), up to the first await
Open(c, a) ==
    /\ pc[c] = "idle"
    /\ arg' = [arg EXCEPT ![c] = a]
    /\ LET argumentObject == argumentObjectOf(a)
       IN  IF ~userInputValidator(argumentObject)
           THEN /\ Settle(c, <<<<"userInputValidator", "throw">>>>,
                          [status |-> "throw", wallet |-> NoWallet,
                           error |-> ValidationError])
                /\ UNCHANGED frame
           ELSE LET chainId == resolveChainId(argumentObject)
                    coinType == coinTypeOf(chainId)
                    rootDerivationPath == derivationPathSerializer(coinType)
                IN  /\ frame' = [frame EXCEPT ![c] =
                            [addressCount |-> argumentObject.addressCount,
                             chainId |-> chainId,
                             coinType |-> coinType,
                             rootDerivationPath |-> rootDerivationPath]]
                    /\ log' = [log EXCEPT ![c] =
                            << <<"userInputValidator", "return">>,
                               <<"coinType", coinType>>,
                               <<"derivationPathSerializer", coinType>>,
                               <<"ledgerConnection">> >>]
                    /\ pc' = [pc EXCEPT ![c] = "connecting"]
                    /\ UNCHANGED outcome
    /\ UNCHANGED providerVars

\* a resumption that asks the device to display the address
ConnectionResolved_display(c) ==
    /\ pc[c] = "connecting"
    /\ log' = [log EXCEPT ![c] =
            log[c] \o << <<"ledgerConnection:resolved">>,
                         <<"getAddress", frame[c].rootDerivationPath, TRUE, TRUE>> >>]
    /\ pc' = [pc EXCEPT ![c] = "awaitingAddress"]
    /\ UNCHANGED <<arg, frame, outcome>>
    /\ UNCHANGED providerVars

\* ledgerConnection() resolved: open resumes and calls ledger.getAddress
ConnectionResolved(c) ==
    /\ pc[c] = "connecting"
    /\ log' = [log EXCEPT ![c] =
            log[c] \o << <<"ledgerConnection:resolved">>,
                         <<"getAddress", frame[c].rootDerivationPath, FALSE, TRUE>> >>]
    /\ pc' = [pc EXCEPT ![c] = "awaitingAddress"]
    /\ UNCHANGED <<arg, frame, outcome>>
    /\ UNCHANGED providerVars

\* a rejection answered by one more connection attempt
ConnectionRejected_retry(c, err, h) ==
    /\ pc[c] = "connecting"
    /\ IF Cardinality({i \in DOMAIN log[c] : log[c][i][1] = "ledgerConnection"}) < 2
       THEN /\ log' = [log EXCEPT ![c] =
                    log[c] \o << <<"ledgerConnection:rejected", err>>,
                                 <<"ledgerConnection">> >>]
            /\ UNCHANGED <<pc, outcome>>
       ELSE Catch(c, Append(log[c], <<"ledgerConnection:rejected", err>>), err, h)
    /\ UNCHANGED <<arg, frame>>
    /\ UNCHANGED providerVars

\* ledgerConnection() rejected: open resumes in its catch block
ConnectionRejected(c, err, h) ==
    /\ pc[c] = "connecting"
    /\ Catch(c, Append(log[c], <<"ledgerConnection:rejected", err>>), err, h)
    /\ UNCHANGED <<arg, frame>>
    /\ UNCHANGED providerVars

\* getAddress resolved with the root public key and chain code, and the
\* LedgerWallet constructor returned: open returns the wallet instance
AddressResolved(c, publicKey, chainCode) ==
    /\ pc[c] = "awaitingAddress"
    /\ LET walletInstance ==
               [publicKey |-> publicKey,
                chainCode |-> chainCode,
                rootDerivationPath |-> frame[c].rootDerivationPath,
                addressCount |-> frame[c].addressCount,
                chainId |-> frame[c].chainId]
       IN  Settle(c,
                  log[c] \o << <<"getAddress:resolved", publicKey, chainCode>>,
                               <<"LedgerWallet", walletInstance>> >>,
                  [status |-> "wallet", wallet |-> walletInstance, error |-> NoError])
    /\ UNCHANGED <<arg, frame>>
    /\ UNCHANGED providerVars

\* a constructor failure outside the try block: it escapes open unhandled
ConstructorThrew_escapes(c, publicKey, chainCode, err, h) ==
    /\ pc[c] = "awaitingAddress"
    /\ LET walletArguments ==
               [publicKey |-> publicKey,
                chainCode |-> chainCode,
                rootDerivationPath |-> frame[c].rootDerivationPath,
                addressCount |-> frame[c].addressCount,
                chainId |-> frame[c].chainId]
       IN  Settle(c,
                  log[c] \o << <<"getAddress:resolved", publicKey, chainCode>>,
                               <<"LedgerWallet", walletArguments>>,
                               <<"LedgerWallet:threw", err>> >>,
                  [status |-> "throw", wallet |-> NoWallet, error |-> err])
    /\ UNCHANGED <<arg, frame>>
    /\ UNCHANGED providerVars

\* getAddress resolved but the LedgerWallet constructor threw: catch block
ConstructorThrew(c, publicKey, chainCode, err, h) ==
    /\ pc[c] = "awaitingAddress"
    /\ LET walletArguments ==
               [publicKey |-> publicKey,
                chainCode |-> chainCode,
                rootDerivationPath |-> frame[c].rootDerivationPath,
                addressCount |-> frame[c].addressCount,
                chainId |-> frame[c].chainId]
       IN  Catch(c,
                 log[c] \o << <<"getAddress:resolved", publicKey, chainCode>>,
                              <<"LedgerWallet", walletArguments>>,
                              <<"LedgerWallet:threw", err>> >>,
                 err, h)
    /\ UNCHANGED <<arg, frame>>
    /\ UNCHANGED providerVars

\* getAddress rejected: open resumes in its catch block
AddressRejected(c, err, h) ==
    /\ pc[c] = "awaitingAddress"
    /\ Catch(c, Append(log[c], <<"getAddress:rejected", err>>), err, h)
    /\ UNCHANGED <<arg, frame>>
    /\ UNCHANGED providerVars

(* ------------------------------ providers ------------------------------ *)

\* DEFAULT_NETWORK
DEFAULT_NETWORK == Str("homestead")

\* `${PROTOCOL}://${HOST}:${PORT}`
DEFAULT_URL == Str("http://localhost:8545")

Networks == {Undefined, Str("homestead"), Str("ropsten")}
ApiKeys == {Undefined, Str(""), Str("KEY")}
Urls == {Undefined, Str("http://127.0.0.1:7545")}
Web3States == {"absent", "noCurrentProvider", "injected"}

\* JS truthiness of an optional string
Truthy(v) == v # Undefined /\ v # Str("")

\* a default parameter value applies when the argument is undefined
Default(v, d) == IF v = Undefined THEN d ELSE v

\* `let provider = {}`
EmptyProvider == [cls |-> "Object", network |-> Undefined, arg |-> Undefined]

Provider(cls, network, a) == [cls |-> cls, network |-> network, arg |-> a]

Construction(cls, network, a, threw) ==
    [cls |-> cls, network |-> network, arg |-> a, threw |-> threw]

ProviderCall(fn, network, a, w3, ret, warnings, errors, constructions) ==
    [fn |-> fn, network |-> network, arg |-> a, web3 |-> w3, ret |-> ret,
     warnings |-> warnings, errors |-> errors,
     constructions |-> constructions, escaped |-> FALSE]

NoCall ==
    [fn |-> "none", network |-> Undefined, arg |-> Undefined, web3 |-> "absent",
     ret |-> EmptyProvider, warnings |-> <<>>, errors |-> <<>>,
     constructions |-> <<>>, escaped |-> FALSE]

\* the provider generator with an optional api key (etherscan and infura have
\* the same body); throwsKeyed / throwsPlain: whether the construction with,
\* respectively without, the api key throws
keyedProvider(fn, cls, networkArg, apiKey, throwsKeyed, throwsPlain) ==
    LET network == Default(networkArg, DEFAULT_NETWORK)
        keyed == Construction(cls, network, apiKey, throwsKeyed)
        plain == Construction(cls, network, Undefined, throwsPlain)
        warning == <<fn, "apiKey">>
        failure == <<fn, "connect", network, apiKey>>
    IN  IF Truthy(apiKey) /\ throwsKeyed
        THEN ProviderCall(fn, networkArg, apiKey, "absent", EmptyProvider,
                          <<>>, <<failure>>, <<keyed>>)
        ELSE LET before == IF Truthy(apiKey)
                           THEN Provider(cls, network, apiKey)
                           ELSE EmptyProvider
                 made == IF Truthy(apiKey) THEN <<keyed>> ELSE <<>>
             IN  IF throwsPlain
                 THEN ProviderCall(fn, networkArg, apiKey, "absent", before,
                                   <<warning>>, <<failure>>, Append(made, plain))
                 ELSE ProviderCall(fn, networkArg, apiKey, "absent",
                                   Provider(cls, network, Undefined),
                                   <<warning>>, <<>>, Append(made, plain))

etherscan(network, apiKey, throwsKeyed, throwsPlain) ==
    keyedProvider("etherscan", "EtherscanProvider", network, apiKey,
                  throwsKeyed, throwsPlain)

infura(network, apiKey, throwsKeyed, throwsPlain) ==
    keyedProvider("infura", "InfuraProvider", network, apiKey,
                  throwsKeyed, throwsPlain)

\* without the early return: the construction is attempted although nothing
\* is injected, and reading global.web3.currentProvider fails
metamask_fallthrough(networkArg, w3, throws) ==
    LET network == Default(networkArg, DEFAULT_NETWORK)
        made == Construction("Web3Provider", network, Str(w3), throws \/ w3 # "injected")
        warnings == IF w3 # "injected" THEN << <<"metamask", "notAvailable">> >> ELSE <<>>
    IN  IF made.threw
        THEN ProviderCall("metamask", networkArg, Undefined, w3, EmptyProvider,
                          warnings, << <<"metamask", "connect", network>> >>, <<made>>)
        ELSE ProviderCall("metamask", networkArg, Undefined, w3,
                          Provider("Web3Provider", network, Str(w3)),
                          warnings, <<>>, <<made>>)

metamask(networkArg, w3, throws) ==
    LET network == Default(networkArg, DEFAULT_NETWORK)
        made == Construction("Web3Provider", network, Str(w3), throws)
    IN  IF w3 # "injected"
        THEN ProviderCall("metamask", networkArg, Undefined, w3, EmptyProvider,
                          << <<"metamask", "notAvailable">> >>, <<>>, <<>>)
        ELSE IF throws
        THEN ProviderCall("metamask", networkArg, Undefined, w3, EmptyProvider,
                          <<>>, << <<"metamask", "connect", network>> >>, <<made>>)
        ELSE ProviderCall("metamask", networkArg, Undefined, w3,
                          Provider("Web3Provider", network, Str(w3)),
                          <<>>, <<>>, <<made>>)

localhost(urlArg, networkArg, throws) ==
    LET url == Default(urlArg, DEFAULT_URL)
        network == Default(networkArg, DEFAULT_NETWORK)
        made == Construction("JsonRpcProvider", network, url, throws)
    IN  IF throws
        THEN ProviderCall("localhost", networkArg, urlArg, "absent", EmptyProvider,
                          <<>>, << <<"localhost", "connect", url, network>> >>, <<made>>)
        ELSE ProviderCall("localhost", networkArg, urlArg, "absent",
                          Provider("JsonRpcProvider", network, url),
                          <<>>, <<>>, <<made>>)

CallEtherscan(network, apiKey, throwsKeyed, throwsPlain) ==
    /\ last' = etherscan(network, apiKey, throwsKeyed, throwsPlain)
    /\ UNCHANGED web3
    /\ UNCHANGED openVars

CallInfura(network, apiKey, throwsKeyed, throwsPlain) ==
    /\ last' = infura(network, apiKey, throwsKeyed, throwsPlain)
    /\ UNCHANGED web3
    /\ UNCHANGED openVars

CallMetamask(network, throws) ==
    /\ last' = metamask(network, web3, throws)
    /\ UNCHANGED web3
    /\ UNCHANGED openVars

CallLocalhost(url, network, throws) ==
    /\ last' = localhost(url, network, throws)
    /\ UNCHANGED web3
    /\ UNCHANGED openVars

\* the page's environment injects or removes global.web3
SetWeb3(w) ==
    /\ w # web3
    /\ web3' = w
    /\ UNCHANGED last
    /\ UNCHANGED openVars

(* --------------------------- specifications ---------------------------- *)

Init ==
    /\ pc = [c \in Calls |-> "idle"]
    /\ arg = [c \in Calls |-> EmptyObject]
    /\ frame = [c \in Calls |-> NoFrame]
    /\ log = [c \in Calls |-> <<>>]
    /\ outcome = [c \in Calls |-> Pending]
    /\ web3 = "absent"
    /\ last = NoCall

Next ==
    \/ \E c \in Calls, a \in Arguments : Open(c, a)
    \/ \E c \in Calls : ConnectionResolved(c)
    \/ \E c \in Calls, err \in DeviceErrors, h \in HandlerOutcomes :
            ConnectionRejected(c, err, h)
    \/ \E c \in Calls, pk \in PublicKeys, cc \in ChainCodes :
            AddressResolved(c, pk, cc)
    \/ \E c \in Calls, pk \in PublicKeys, cc \in ChainCodes,
          err \in ConstructorErrors, h \in HandlerOutcomes :
            ConstructorThrew(c, pk, cc, err, h)
    \/ \E c \in Calls, err \in DeviceErrors, h \in HandlerOutcomes :
            AddressRejected(c, err, h)

\* the wallet flow
Spec == Init /\ [][Next]_vars

ProviderNext ==
    \/ \E n \in Networks, k \in ApiKeys, t1 \in BOOLEAN, t2 \in BOOLEAN :
            CallEtherscan(n, k, t1, t2)
    \/ \E n \in Networks, k \in ApiKeys, t1 \in BOOLEAN, t2 \in BOOLEAN :
            CallInfura(n, k, t1, t2)
    \/ \E n \in Networks, t \in BOOLEAN : CallMetamask(n, t)
    \/ \E u \in Urls, n \in Networks, t \in BOOLEAN : CallLocalhost(u, n, t)
    \/ \E w \in Web3States : SetWeb3(w)

\* the provider generators
ProviderSpec == Init /\ [][ProviderNext]_vars

(* ---------------------------- properties ------------------------------- *)

Called(c) == pc[c] # "idle"

Count(c, op) == Cardinality({i \in DOMAIN log[c] : log[c][i][1] = op})

OpsOf(c) == [i \in DOMAIN log[c] |-> log[c][i][1]]

ValidatorThrew(c) ==
    \E i \in DOMAIN log[c] :
        log[c][i][1] = "userInputValidator" /\ log[c][i][2] = "throw"

ValidatorReturned(c) ==
    \E i \in DOMAIN log[c] :
        log[c][i][1] = "userInputValidator" /\ log[c][i][2] = "return"

Contains(s, sub) ==
    \E i \in 0..(Len(s) - Len(sub)) : SubSeq(s, i + 1, i + Len(sub)) = sub

\* the chain id open() is to work with: the caller's, or mainnet when absent
ExpectedChainId(c) ==
    IF arg[c].chainId = Undefined THEN Num(HOMESTEAD) ELSE arg[c].chainId

DeviceOps == {"ledgerConnection", "getAddress", "LedgerWallet"}

\* C1: when userInputValidator rejects the argument of an open() call, the
\* call fails with that validation error and it never calls
\* ledgerConnection(), getAddress() or the wallet constructor.
C1_ValidationPrecedesDeviceIO ==
    \A c \in Calls :
        ValidatorThrew(c) =>
            /\ pc[c] = "rejected"
            /\ outcome[c].status = "throw"
            /\ outcome[c].error = ValidationError
            /\ \A i \in DOMAIN log[c] : log[c][i][1] \notin DeviceOps

C1_Witness ==
    \E c \in Calls :
        /\ ValidatorThrew(c)
        /\ arg[c].kind = "object"
        /\ pc[c] = "rejected"

\* C2: in every provider generator call in which an underlying provider
\* construction threw, the call returns the empty object and no exception
\* escapes it.
C2_ThrowYieldsEmptyObject ==
    (/\ last.fn # "none"
     /\ \E i \in DOMAIN last.constructions : last.constructions[i].threw)
        => (last.ret = EmptyProvider /\ ~last.escaped)

\* C3: metamask() called while nothing is injected (no global.web3, or no
\* global.web3.currentProvider) returns the empty object, constructs no
\* Web3Provider, warns exactly once ("not available") and logs no error.
C3_MetamaskNotAvailable ==
    (last.fn = "metamask" /\ last.web3 # "injected") =>
        /\ last.ret = EmptyProvider
        /\ last.constructions = <<>>
        /\ last.warnings = << <<"metamask", "notAvailable">> >>
        /\ last.errors = <<>>
        /\ ~last.escaped

C3_Witness ==
    /\ last.fn = "metamask"
    /\ last.web3 = "noCurrentProvider"
    /\ last.ret = EmptyProvider

\* C4: when ledgerConnection() or getAddress() rejects during open(), nothing
\* more is asked of the device (one ledgerConnection call, no getAddress after
\* a failed connection, no wallet construction), the handler is called exactly
\* once with the caught error and a message holding the root derivation path
\* and the error's message, and open() settles exactly as the handler did.
C4_DeviceFailureHandledOnce ==
    \A c \in Calls : \A i \in DOMAIN log[c] :
        log[c][i][1] \in {"ledgerConnection:rejected", "getAddress:rejected"} =>
            /\ Len(log[c]) = i + 1
            /\ log[c][i + 1][1] = "handleLedgerConnectionError"
            /\ log[c][i + 1][2] = log[c][i][2]
            /\ Contains(log[c][i + 1][3], derivationPathSerializer(frame[c].coinType))
            /\ Contains(log[c][i + 1][3], <<log[c][i][2].message>>)
            /\ Count(c, "handleLedgerConnectionError") = 1
            /\ Count(c, "ledgerConnection") = 1
            /\ Count(c, "LedgerWallet") = 0
            /\ Count(c, "getAddress") =
                    IF log[c][i][1] = "ledgerConnection:rejected" THEN 0 ELSE 1
            /\ outcome[c] = log[c][i + 1][4]
            /\ pc[c] = IF log[c][i + 1][4].status = "throw" THEN "rejected" ELSE "resolved"

C4_Witness ==
    \E c, d \in Calls :
        /\ Count(c, "ledgerConnection:rejected") = 1
        /\ pc[c] = "rejected"
        /\ Count(d, "getAddress:rejected") = 1
        /\ pc[d] = "resolved"

\* C5: the coin type handed to the derivation path serializer is the mainnet
\* constant exactly when the resolved chain id is the mainnet id, and the
\* testnet constant for every other chain id; there is no third coin type.
C5_CoinTypeFollowsChainId ==
    \A c \in Calls : \A i \in DOMAIN log[c] :
        log[c][i][1] = "derivationPathSerializer" =>
            /\ log[c][i][2] \in {COIN_MAINNET, COIN_TESTNET}
            /\ (log[c][i][2] = COIN_MAINNET) <=> (ExpectedChainId(c) = Num(HOMESTEAD))
            /\ (log[c][i][2] = COIN_TESTNET) <=> (ExpectedChainId(c) # Num(HOMESTEAD))

C5_Witness ==
    \E c, d \in Calls :
        /\ Count(c, "derivationPathSerializer") = 1
        /\ arg[c].chainId = Undefined
        /\ frame[c].coinType = COIN_MAINNET
        /\ Count(d, "derivationPathSerializer") = 1
        /\ arg[d].chainId = Num(ROPSTEN)
        /\ frame[d].coinType = COIN_TESTNET

OtherwiseInvalid(a) ==
    \/ a.kind \in {"null", "array", "primitive"}
    \/ /\ a.chainId # Undefined
       /\ ~(a.chainId[1] = "number" /\ a.chainId[2] > 0)

C7_ApiKeyIsUsed ==
    /\ (/\ last.fn \in {"etherscan", "infura"}
        /\ Truthy(last.arg)
        /\ \A i \in DOMAIN last.constructions : ~last.constructions[i].threw)
            => /\ last.ret.arg = last.arg
               /\ last.warnings = <<>>
    /\ (/\ last.fn \in {"etherscan", "infura"}
        /\ last.warnings # <<>>)
            => ~Truthy(last.arg)

SuccessOps ==
    <<"userInputValidator", "coinType", "derivationPathSerializer",
      "ledgerConnection", "ledgerConnection:resolved",
      "getAddress", "getAddress:resolved", "LedgerWallet">>

\* C8: in a successful open() the steps happen once each and in the order
\* validate, coin type, root path, ledgerConnection(), getAddress(root path,
\* false, true), wallet construction; getAddress follows the connection's
\* resolution, the construction follows getAddress's resolution, and the
\* wallet gets the device's publicKey/chainCode, the root path sent to the
\* device, the caller's addressCount and the resolved chain id.
C8_SuccessfulOpenOrder ==
    \A c \in Calls :
        outcome[c].status = "wallet" =>
            /\ pc[c] = "resolved"
            /\ OpsOf(c) = SuccessOps
            /\ log[c][1][2] = "return"
            /\ log[c][3][2] = log[c][2][2]
            /\ log[c][6] = <<"getAddress", derivationPathSerializer(log[c][3][2]), FALSE, TRUE>>
            /\ log[c][8][2] =
                    [publicKey |-> log[c][7][2],
                     chainCode |-> log[c][7][3],
                     rootDerivationPath |-> log[c][6][2],
                     addressCount |-> arg[c].addressCount,
                     chainId |-> ExpectedChainId(c)]
            /\ outcome[c].wallet = log[c][8][2]

C8_Witness ==
    \E c \in Calls :
        /\ outcome[c].status = "wallet"
        /\ outcome[c].wallet.publicKey = "pkA"
        /\ outcome[c].wallet.addressCount = Num(1)
        /\ outcome[c].wallet.chainId = Num(ROPSTEN)

Connections == {c \in Calls : pc[c] \in {"connecting", "awaitingAddress"}}

\* C9 as stated: under any interleaving of open() calls at most one device
\* connection is open or being opened at any time.
C9_AtMostOneConnection == Cardinality(Connections) <= 1

\* C9 as amended: each open() call calls ledgerConnection() at most once, so
\* it holds at most one device connection; open() calls are not serialised,
\* and calls in flight together each hold their own.
C9_AtMostOneConnectionPerCall ==
    \A c \in Calls :
        /\ Count(c, "ledgerConnection") <= 1
        /\ c \in Connections => Count(c, "ledgerConnection") = 1
        /\ Count(c, "ledgerConnection:resolved") + Count(c, "ledgerConnection:rejected")
                <= Count(c, "ledgerConnection")

C9_Witness ==
    /\ Cardinality(Connections) = NumCalls
    /\ \E c \in Calls : pc[c] = "awaitingAddress"

\* C10: an exception of the LedgerWallet constructor, after the connection
\* and getAddress succeeded, goes to handleLedgerConnectionError with the
\* generic export-error message, and open() settles as the handler did; so
\* once validation has passed open() rejects only when the handler throws.
C10_ConstructorFailureHandled ==
    \A c \in Calls :
        /\ \A i \in DOMAIN log[c] :
              log[c][i][1] = "LedgerWallet:threw" =>
                  /\ Count(c, "ledgerConnection:resolved") = 1
                  /\ Count(c, "getAddress:resolved") = 1
                  /\ Len(log[c]) = i + 1
                  /\ log[c][i + 1][1] = "handleLedgerConnectionError"
                  /\ log[c][i + 1][2] = log[c][i][2]
                  /\ log[c][i + 1][3][1] = userExportGenericError
                  /\ Contains(log[c][i + 1][3], <<log[c][i][2].message>>)
                  /\ outcome[c] = log[c][i + 1][4]
        /\ (pc[c] = "rejected" /\ ValidatorReturned(c)) =>
              /\ log[c][Len(log[c])][1] = "handleLedgerConnectionError"
              /\ log[c][Len(log[c])][4].status = "throw"
              /\ outcome[c] = log[c][Len(log[c])][4]

C10_Witness ==
    \E c, d \in Calls :
        /\ Count(c, "LedgerWallet:threw") = 1
        /\ pc[c] = "rejected"
        /\ Count(d, "LedgerWallet:threw") = 1
        /\ pc[d] = "resolved"

====
